---- MODULE Spec2Model ----
(***************************************************************************)
(* A model of carbonapi's scatter/gather proxy (src/main.go): the          *)
(* per-backend limiter, singleGet workers, the multiGet coordinator with   *)
(* its two-phase deadline, the find aggregator and its routing cache, and  *)
(* the render merger.                                                      *)
(***************************************************************************)
EXTENDS Integers, Sequences, FiniteSets, TLC

VARIABLES
    limit,        \* the -limit flag: 0 leaves Limiter nil, else the capacity
    sem,          \* Limiter: tokens held in each backend's channel
    metricPaths,  \* Config.metricPaths: path -> list of backends
    Metrics,      \* the expvar counters
    pc,           \* per request: position of its handler
    kind,         \* per request: "find" or "render"
    target,       \* per request: the render target
    servers,      \* per request: the list handed to multiGet
    wk,           \* per request: its singleGet goroutines
    ch,           \* per request: the buffered response channel
    cnt,          \* per request: multiGet's loop counter i
    response,     \* per request: multiGet's accumulated responses
    isFirstResponse, \* per request: multiGet's flag
    elapsed,      \* per request: time since multiGet dispatched
    deadline,     \* per request: when the current time.After fires
    firstAt,      \* per request: when the first successful response was received (history)
    usableInTime, \* per request: a worker sent a decodable body before the deadline (history)
    tick,         \* the granularity at which time passes in this run
    bodies,       \* which backends this run has: a key of BodyTable
    reply,        \* per request: what the client is answered
    lastFind,     \* history: per path, the list learned by the latest committed find
    seenFind,     \* history: per render, lastFind of its target when it read the cache
    got,          \* history: per request, every report multiGet received, in order
    mu,           \* Config.mu: the request holding the write lock, or 0
    pending,      \* per find: the entries of its paths map not yet stored
    mode,         \* pure-function runs: which function is applied
    input,        \* pure-function runs: the argument
    output        \* pure-function runs: the result

vars == <<limit, sem, metricPaths, Metrics, pc, kind, target, servers, wk, ch,
          cnt, response, isFirstResponse, elapsed, deadline, firstAt, usableInTime,
          tick, bodies, reply, lastFind, seenFind, got, mu, pending,
          mode, input, output>>

sysVars == <<limit, sem, metricPaths, Metrics, pc, kind, target, servers, wk, ch,
             cnt, response, isFirstResponse, elapsed, deadline, firstAt, usableInTime,
             tick, bodies, reply, lastFind, seenFind, got, mu, pending>>

pureVars == <<mode, input, output>>

----------------------------------------------------------------------------
(* Configuration *)

\* Config.Backends: required non-empty (main exits otherwise)
Backends == <<"A", "B">>

Range(s) == {s[k] : k \in DOMAIN s}

BackendSet == Range(Backends)

\* Config.TimeoutMs
TimeoutMs == 2000

\* Config.TimeoutMsAfterFirstSeen
TimeoutMsAfterFirstSeen == 500

\* the granularity at which the model lets time pass
TickMs == TimeoutMsAfterFirstSeen

\* largest value of the -limit flag
MaxLimit == 1

\* the client requests of a run
Requests == {1, 2, 3}

Paths == {"x.y", "x.z"}

Targets == Paths \cup {""}

----------------------------------------------------------------------------
(* Response bodies.  A body is a byte string; what matters of it is whether *)
(* proto.Unmarshal accepts it and what it decodes to.                       *)

Nil == [t |-> "nil"]

BadBody == [t |-> "bad"]

GlobMatch(p, leaf) == [Path |-> p, IsLeaf |-> leaf]

GlobBody(ms) == [t |-> "glob", Matches |-> ms]

FetchBody(step, values, absent) ==
    [t |-> "fetch", StepTime |-> step, Values |-> values, IsAbsent |-> absent]

serverResponse(s, b) == [server |-> s, response |-> b]

----------------------------------------------------------------------------
(* Maps (Go map[string][]string) *)

EmptyMap == [x \in {} |-> <<>>]

MapSet(f, k, v) == [x \in DOMAIN f \cup {k} |-> IF x = k THEN v ELSE f[x]]

----------------------------------------------------------------------------
(* Find aggregator *)

\* proto.Unmarshal(r.response, &metric) for a pb.GlobResponse
UnmarshalGlob(b) ==
    IF b.t = "glob" THEN [err |-> FALSE, Matches |-> b.Matches]
                    ELSE [err |-> TRUE, Matches |-> <<>>]

\* p = append(p, r.server) with every occurrence dropped but the first
appendServerOnce(p, server) ==
    IF server \in Range(p) THEN p ELSE Append(p, server)

\* p = append(p, r.server)
appendServer(p, server) == Append(p, server)

\* a loop body that records the path without the server
matchStepNoServer(acc, m, server) ==
    LET ok == m.Path \in DOMAIN acc.paths
        p  == IF ok THEN acc.paths[m.Path] ELSE <<>>
    IN  [metrics |-> IF ok THEN acc.metrics ELSE Append(acc.metrics, m),
         paths   |-> MapSet(acc.paths, m.Path, p),
         errs    |-> acc.errs]

\* the body of the loop over metric.Matches
matchStep(acc, m, server) ==
    LET ok == m.Path \in DOMAIN acc.paths
        p  == IF ok THEN acc.paths[m.Path] ELSE <<>>
    IN  [metrics |-> IF ok THEN acc.metrics ELSE Append(acc.metrics, m),
         paths   |-> MapSet(acc.paths, m.Path, appendServer(p, server)),
         errs    |-> acc.errs]

RECURSIVE matchLoop(_, _, _, _)
matchLoop(acc, ms, server, k) ==
    IF k > Len(ms) THEN acc
    ELSE matchLoop(matchStep(acc, ms[k], server), ms, server, k + 1)

RECURSIVE responseLoop(_, _, _)
responseLoop(acc, responses, k) ==
    IF k > Len(responses) THEN acc
    ELSE LET r == responses[k]
             d == UnmarshalGlob(r.response)
         IN  IF d.err
             THEN responseLoop([acc EXCEPT !.errs = @ + 1], responses, k + 1)
             ELSE responseLoop(matchLoop(acc, d.Matches, r.server, 1), responses, k + 1)

\* returns metrics, paths and the number of Metrics.FindErrors.Add(1) it made
findHandlerPB(responses) ==
    responseLoop([metrics |-> <<>>, paths |-> EmptyMap, errs |-> 0], responses, 1)

----------------------------------------------------------------------------
(* Routing cache *)

\* for k, v := range paths { Config.metricPaths[k] = v }, with the new list
\* appended to the old one
CommitUnion(mp, paths) ==
    [k \in DOMAIN mp \cup DOMAIN paths |->
        IF k \in DOMAIN paths
        THEN (IF k \in DOMAIN mp THEN mp[k] ELSE <<>>) \o paths[k]
        ELSE mp[k]]

\* for k, v := range paths { Config.metricPaths[k] = v }
CommitPaths(mp, paths) ==
    [k \in DOMAIN mp \cup DOMAIN paths |->
        IF k \in DOMAIN paths THEN paths[k] ELSE mp[k]]

\* a lookup that ignores the cache
LookupAll(mp, tgt) == Backends

\* serverList, ok = Config.metricPaths[target]; fall back to Config.Backends
LookupServers(mp, tgt) ==
    IF tgt \in DOMAIN mp /\ Len(mp[tgt]) # 0 THEN mp[tgt] ELSE Backends

----------------------------------------------------------------------------
(* Render merger *)

\* proto.Unmarshal(r.response, &d) for a pb.FetchResponse
UnmarshalFetch(b) ==
    IF b.t = "fetch"
    THEN [err |-> FALSE,
          d |-> [StepTime |-> b.StepTime, Values |-> b.Values, IsAbsent |-> b.IsAbsent]]
    ELSE [err |-> TRUE, d |-> Nil]

\* the state of mergeValues: the base, the flag, and the number of
\* Metrics.RenderErrors.Add(1) made
MergeState(metric, mismatch, errs) ==
    [metric |-> metric, responseLengthMismatch |-> mismatch, errs |-> errs]

\* the inner loop over peers with the length check ignored after the first peer
RECURSIVE otherLoopNoAbort(_, _, _, _)
otherLoopNoAbort(st, decoded, i, other) ==
    IF other > Len(decoded) THEN st
    ELSE LET m == decoded[other]
         IN  IF Len(m.Values) # Len(st.metric.Values)
             THEN otherLoopNoAbort(MergeState(st.metric, FALSE, st.errs + 1),
                                   decoded, i, other + 1)
             ELSE IF ~m.IsAbsent[i]
                  THEN otherLoopNoAbort(
                         MergeState([st.metric EXCEPT !.IsAbsent[i] = FALSE,
                                                      !.Values[i] = m.Values[i]],
                                    st.responseLengthMismatch, st.errs),
                         decoded, i, other + 1)
                  ELSE otherLoopNoAbort(st, decoded, i, other + 1)

\* for other := 1; other < len(decoded); other++ { ... }  (Go indexes from 0:
\* decoded[other] here is decoded[other-1] there, so the loop starts at 2)
RECURSIVE otherLoop(_, _, _, _)
otherLoop(st, decoded, i, other) ==
    IF other > Len(decoded) THEN st
    ELSE LET m == decoded[other]
         IN  IF Len(m.Values) # Len(st.metric.Values)
             THEN MergeState(st.metric, TRUE, st.errs + 1)
             ELSE IF ~m.IsAbsent[i]
                  THEN otherLoop(
                         MergeState([st.metric EXCEPT !.IsAbsent[i] = FALSE,
                                                      !.Values[i] = m.Values[i]],
                                    st.responseLengthMismatch, st.errs),
                         decoded, i, other + 1)
                  ELSE otherLoop(st, decoded, i, other + 1)

\* for i := range metric.Values { ... }
RECURSIVE valueLoop(_, _, _)
valueLoop(st, decoded, i) ==
    IF i > Len(st.metric.Values) THEN st
    ELSE IF ~st.metric.IsAbsent[i] \/ st.responseLengthMismatch
         THEN valueLoop(st, decoded, i + 1)
         ELSE valueLoop(otherLoop(st, decoded, i, 2), decoded, i + 1)

mergeValues(metric, decoded) ==
    valueLoop(MergeState(metric, FALSE, 0), decoded, 1)

\* the decode loop of handleRenderPB
RECURSIVE decodeLoop(_, _, _)
decodeLoop(acc, responses, k) ==
    IF k > Len(responses) THEN acc
    ELSE LET u == UnmarshalFetch(responses[k].response)
         IN  IF u.err
             THEN decodeLoop([acc EXCEPT !.errs = @ + 1], responses, k + 1)
             ELSE decodeLoop([acc EXCEPT !.decoded = Append(@, u.d)], responses, k + 1)

\* for i, d := range decoded { if d.GetStepTime() < decoded[highest].GetStepTime() ... }
RECURSIVE highestLoop(_, _, _)
highestLoop(decoded, highest, i) ==
    IF i > Len(decoded) THEN highest
    ELSE highestLoop(decoded,
                     IF decoded[i].StepTime < decoded[highest].StepTime THEN i ELSE highest,
                     i + 1)

\* decoded[0], decoded[highest] = decoded[highest], decoded[0]
swapBase(decoded, highest) ==
    [decoded EXCEPT ![1] = decoded[highest], ![highest] = decoded[1]]

\* a handler that fails the request when any body failed to decode
handleRenderStrict(responses) ==
    LET dl == decodeLoop([decoded |-> <<>>, errs |-> 0], responses, 1)
    IN  IF dl.errs > 0 \/ Len(dl.decoded) = 0
        THEN [code |-> 500, metric |-> Nil, errs |-> dl.errs + 1, mismatch |-> FALSE]
        ELSE [code |-> 200, metric |-> dl.decoded[1], errs |-> dl.errs, mismatch |-> FALSE]

\* returns the status, the metric handed to returnRender, and the number of
\* Metrics.RenderErrors.Add(1) made
handleRenderPB(responses) ==
    LET dl      == decodeLoop([decoded |-> <<>>, errs |-> 0], responses, 1)
        decoded == dl.decoded
    IN  IF Len(decoded) = 0
        THEN [code |-> 500, metric |-> Nil, errs |-> dl.errs + 1, mismatch |-> FALSE]
        ELSE IF Len(decoded) = 1
        THEN [code |-> 200, metric |-> decoded[1], errs |-> dl.errs, mismatch |-> FALSE]
        ELSE LET sw == swapBase(decoded, highestLoop(decoded, 1, 1))
                 mv == mergeValues(sw[1], sw)
             IN  [code |-> 200, metric |-> mv.metric, errs |-> dl.errs + mv.errs,
                  mismatch |-> mv.responseLengthMismatch]

----------------------------------------------------------------------------
(* What a backend may answer with HTTP 200 *)

FindBodies ==
    { BadBody,
      GlobBody(<<GlobMatch("x.y", TRUE)>>),
      GlobBody(<<GlobMatch("x.y", TRUE), GlobMatch("x.z", TRUE)>>),
      GlobBody(<<GlobMatch("x.z", TRUE), GlobMatch("x.z", TRUE)>>) }

RenderBodies ==
    { BadBody,
      FetchBody(60, <<7, 0>>, <<FALSE, TRUE>>),
      FetchBody(10, <<0, 8>>, <<TRUE, FALSE>>) }

\* backends that may answer with any of the bodies
AllBodies == [find   |-> [b \in BackendSet |-> FindBodies],
              render |-> [b \in BackendSet |-> RenderBodies]]

\* A holds x.y, or answers garbage; B holds x.y and x.z
RouteBodies ==
    [find   |-> [b \in BackendSet |->
                   IF b = "A"
                   THEN {BadBody, GlobBody(<<GlobMatch("x.y", TRUE)>>)}
                   ELSE {GlobBody(<<GlobMatch("x.y", TRUE), GlobMatch("x.z", TRUE)>>)}],
     render |-> [b \in BackendSet |-> {FetchBody(10, <<0, 8>>, <<TRUE, FALSE>>)}]]

\* A holds x.y; B holds x.z and lists it twice
FewBodies ==
    [find   |-> [b \in BackendSet |->
                   IF b = "A"
                   THEN {GlobBody(<<GlobMatch("x.y", TRUE)>>)}
                   ELSE {GlobBody(<<GlobMatch("x.z", TRUE), GlobMatch("x.z", TRUE)>>)}],
     render |-> [b \in BackendSet |-> {FetchBody(10, <<0, 8>>, <<TRUE, FALSE>>)}]]

BodyTable == [all |-> AllBodies, few |-> FewBodies, route |-> RouteBodies]

\* the bodies backend s of this run may answer a request of kind k with
BodiesFor(k, s) ==
    IF k \in DOMAIN BodyTable[bodies] THEN BodyTable[bodies][k][s] ELSE {}

\* how the HTTP call of singleGet may end
HttpOutcomes == {"error", "404", "non200", "readerr", "200"}

\* what singleGet sends for an outcome
Sent(server, outcome, body) ==
    serverResponse(server, IF outcome = "200" THEN body ELSE Nil)

----------------------------------------------------------------------------
(* Limiter *)

\* sl[s] <- struct{}{} on a channel that is never full
enterAlways(sm, lim, s) == TRUE

\* serverLimiter.enter can proceed: sl == nil, or sl[s] has room
canEnter(sm, lim, s) == lim = 0 \/ sm[s] < lim

\* an enter that puts two tokens in
enteredTwice(sm, lim, s) == IF lim = 0 THEN sm ELSE [sm EXCEPT ![s] = @ + 2]

\* the tokens after enter
entered(sm, lim, s) == IF lim = 0 THEN sm ELSE [sm EXCEPT ![s] = @ + 1]

\* a leave that takes no token out
leftNothing(sm, lim, s) == sm

\* the tokens after leave
left(sm, lim, s) == IF lim = 0 THEN sm ELSE [sm EXCEPT ![s] = @ - 1]

----------------------------------------------------------------------------
(* Initial state *)

NoReply == [code |-> 0, body |-> Nil]

SysInit(active, granularity, held, limits) ==
    /\ limit \in limits
    /\ tick = granularity
    /\ bodies = held
    /\ sem = [b \in BackendSet |-> 0]
    /\ metricPaths = EmptyMap
    /\ Metrics = [FindRequests |-> 0, FindErrors |-> 0, RenderRequests |-> 0,
                  RenderErrors |-> 0, Timeouts |-> 0]
    /\ pc = [r \in Requests |-> IF r \in active THEN "idle" ELSE "off"]
    /\ kind = [r \in Requests |-> "none"]
    /\ target = [r \in Requests |-> ""]
    /\ servers = [r \in Requests |-> <<>>]
    /\ wk = [r \in Requests |-> <<>>]
    /\ ch = [r \in Requests |-> <<>>]
    /\ cnt = [r \in Requests |-> 0]
    /\ response = [r \in Requests |-> <<>>]
    /\ isFirstResponse = [r \in Requests |-> TRUE]
    /\ elapsed = [r \in Requests |-> 0]
    /\ deadline = [r \in Requests |-> 0]
    /\ firstAt = [r \in Requests |-> -1]
    /\ usableInTime = [r \in Requests |-> FALSE]
    /\ reply = [r \in Requests |-> NoReply]
    /\ lastFind = [p \in Paths |-> <<>>]
    /\ seenFind = [r \in Requests |-> <<>>]
    /\ got = [r \in Requests |-> <<>>]
    /\ mu = 0
    /\ pending = [r \in Requests |-> EmptyMap]

NoOutput == [done |-> FALSE]

PureIdle ==
    /\ mode = "none"
    /\ input = <<>>
    /\ output = NoOutput

\* concurrent requests under an enabled limiter; time passes in steps of TimeoutMs
Init == SysInit({1, 2}, TimeoutMs, "few", 1..MaxLimit) /\ PureIdle

\* one request, the limiter disabled or enabled; time passes in steps of TickMs
TimedInit == SysInit({1}, TickMs, "all", 0..MaxLimit) /\ PureIdle

----------------------------------------------------------------------------
(* multiGet: dispatch *)

\* time.After(d) started when `el` has elapsed, d counted from dispatch
afterFromDispatch(el, d) == d

\* time.After(d) started when `el` has elapsed: fires at el + d
after(el, d) == el + d

\* ch := make(chan serverResponse, len(servers)); go singleGet(...) for each;
\* isFirstResponse := true; timeout := time.After(TimeoutMs)
Dispatch(r, list) ==
    /\ servers' = [servers EXCEPT ![r] = list]
    /\ ch' = [ch EXCEPT ![r] = <<>>]
    /\ wk' = [wk EXCEPT ![r] =
                [j \in 1..Len(list) |-> [server |-> list[j], pc |-> "start"]]]
    /\ cnt' = [cnt EXCEPT ![r] = 0]
    /\ response' = [response EXCEPT ![r] = <<>>]
    /\ got' = [got EXCEPT ![r] = <<>>]
    /\ isFirstResponse' = [isFirstResponse EXCEPT ![r] = TRUE]
    /\ elapsed' = [elapsed EXCEPT ![r] = 0]
    /\ deadline' = [deadline EXCEPT ![r] = after(0, TimeoutMs)]
    /\ pc' = [pc EXCEPT ![r] = "gather"]

----------------------------------------------------------------------------
(* Handlers: entry *)

\* findHandler up to and including the dispatch of multiGet(Config.Backends, ...)
FindStart(r) ==
    /\ pc[r] = "idle"
    /\ kind' = [kind EXCEPT ![r] = "find"]
    /\ Metrics' = [Metrics EXCEPT !.FindRequests = @ + 1]
    /\ Dispatch(r, Backends)
    /\ UNCHANGED <<tick, bodies, limit, sem, metricPaths, target, firstAt, usableInTime, reply,
                   lastFind, seenFind>>
    /\ UNCHANGED <<mu, pending>>
    /\ UNCHANGED pureVars

\* renderHandler with an empty target
RenderEmpty(r) ==
    /\ pc[r] = "idle"
    /\ kind' = [kind EXCEPT ![r] = "render"]
    /\ target' = [target EXCEPT ![r] = ""]
    /\ Metrics' = [Metrics EXCEPT !.RenderRequests = @ + 1]
    /\ reply' = [reply EXCEPT ![r] = [code |-> 400, body |-> Nil]]
    /\ pc' = [pc EXCEPT ![r] = "done"]
    /\ UNCHANGED <<tick, bodies, limit, sem, metricPaths, servers, wk, ch, cnt, response,
                   isFirstResponse, elapsed, deadline, firstAt, usableInTime, lastFind,
                   seenFind>>
    /\ UNCHANGED <<got, mu, pending>>
    /\ UNCHANGED pureVars

\* renderHandler up to and including the dispatch of multiGet(serverList, ...)
RenderStart(r, tgt) ==
    /\ pc[r] = "idle"
    /\ tgt # ""
    /\ kind' = [kind EXCEPT ![r] = "render"]
    /\ target' = [target EXCEPT ![r] = tgt]
    /\ Metrics' = [Metrics EXCEPT !.RenderRequests = @ + 1]
    /\ seenFind' = [seenFind EXCEPT ![r] = lastFind[tgt]]
    /\ Dispatch(r, LookupServers(metricPaths, tgt))
    /\ UNCHANGED <<tick, bodies, limit, sem, metricPaths, firstAt, usableInTime, reply, lastFind>>
    /\ UNCHANGED <<mu, pending>>
    /\ UNCHANGED pureVars

----------------------------------------------------------------------------
(* singleGet *)

\* whether a sent response is one the handler of a request of kind k can use
Usable(k, b) ==
    IF k = "find" THEN ~UnmarshalGlob(b).err ELSE ~UnmarshalFetch(b).err

\* send on a channel made without a buffer: a receiver must be waiting
canSendUnbuffered(r) == pc[r] = "gather" /\ Len(ch[r]) = 0

\* send on ch; the buffered channel holds cap(ch) = len(servers) messages
canSend(r) == Len(ch[r]) < Len(servers[r])

\* whether the coordinator of r is still gathering with its deadline ahead
InTime(r) == pc[r] = "gather" /\ elapsed[r] < deadline[r]

\* url.Parse fails: the sentinel is sent before Limiter.enter
ParseError(r, j) ==
    /\ j \in DOMAIN wk[r]
    /\ wk[r][j].pc = "start"
    /\ canSend(r)
    /\ ch' = [ch EXCEPT ![r] = Append(@, serverResponse(wk[r][j].server, Nil))]
    /\ wk' = [wk EXCEPT ![r][j].pc = "done"]
    /\ UNCHANGED <<tick, bodies, limit, sem, metricPaths, Metrics, pc, kind, target, servers, cnt,
                   response, isFirstResponse, elapsed, deadline, firstAt, usableInTime, reply,
                   lastFind, seenFind>>
    /\ UNCHANGED <<got, mu, pending>>
    /\ UNCHANGED pureVars

\* Limiter.enter(server); the worker then performs storageClient.Do
Enter(r, j) ==
    /\ j \in DOMAIN wk[r]
    /\ wk[r][j].pc = "start"
    /\ canEnter(sem, limit, wk[r][j].server)
    /\ sem' = entered(sem, limit, wk[r][j].server)
    /\ wk' = [wk EXCEPT ![r][j].pc = "http"]
    /\ UNCHANGED <<tick, bodies, limit, metricPaths, Metrics, pc, kind, target, servers, ch, cnt,
                   response, isFirstResponse, elapsed, deadline, firstAt, usableInTime, reply,
                   lastFind, seenFind>>
    /\ UNCHANGED <<got, mu, pending>>
    /\ UNCHANGED pureVars

\* the HTTP call ends; the worker sends once and the deferred leave runs
Complete(r, j, outcome, body) ==
    /\ j \in DOMAIN wk[r]
    /\ wk[r][j].pc = "http"
    /\ canSend(r)
    /\ LET m == Sent(wk[r][j].server, outcome, body)
       IN  /\ ch' = [ch EXCEPT ![r] = Append(@, m)]
           /\ wk' = [wk EXCEPT ![r][j].pc = "done"]
           /\ usableInTime' = [usableInTime EXCEPT ![r] =
                  @ \/ (InTime(r) /\ Usable(kind[r], m.response))]
    /\ sem' = left(sem, limit, wk[r][j].server)
    /\ UNCHANGED <<tick, bodies, limit, metricPaths, Metrics, pc, kind, target, servers, cnt,
                   response, isFirstResponse, elapsed, deadline, firstAt, reply,
                   lastFind, seenFind>>
    /\ UNCHANGED <<got, mu, pending>>
    /\ UNCHANGED pureVars

----------------------------------------------------------------------------
(* multiGet: gather *)

\* a loop that is left only when the deadline fires
gatherPcWaits(r, n) == "gather"

\* the loop condition i < len(servers) after one more iteration
gatherPc(r, n) == IF n < Len(servers[r]) THEN "gather" ELSE "gathered"

\* case r := <-ch
Recv(r) ==
    /\ pc[r] = "gather"
    /\ Len(ch[r]) > 0
    /\ LET m == Head(ch[r])
           ok == m.response # Nil
       IN  /\ response' = [response EXCEPT ![r] = IF ok THEN Append(@, m) ELSE @]
           /\ deadline' = [deadline EXCEPT ![r] =
                  IF ok /\ isFirstResponse[r]
                  THEN after(elapsed[r], TimeoutMsAfterFirstSeen) ELSE @]
           /\ firstAt' = [firstAt EXCEPT ![r] =
                  IF ok /\ isFirstResponse[r] THEN elapsed[r] ELSE @]
           /\ isFirstResponse' = [isFirstResponse EXCEPT ![r] = IF ok THEN FALSE ELSE @]
    /\ got' = [got EXCEPT ![r] = Append(@, Head(ch[r]))]
    /\ ch' = [ch EXCEPT ![r] = Tail(@)]
    /\ cnt' = [cnt EXCEPT ![r] = @ + 1]
    /\ pc' = [pc EXCEPT ![r] = gatherPc(r, cnt[r] + 1)]
    /\ UNCHANGED <<tick, bodies, limit, sem, metricPaths, Metrics, kind, target, servers, wk,
                   elapsed, usableInTime, reply, lastFind, seenFind>>
    /\ UNCHANGED <<mu, pending>>
    /\ UNCHANGED pureVars

\* a timer that never fires
firedNever(el, dl) == FALSE

\* the channel of time.After is ready: the deadline has been reached
fired(el, dl) == el >= dl

\* a deadline exit that is not counted
countNothing(m) == m

\* Metrics.Timeouts.Add(1)
countTimeout(m) == [m EXCEPT !.Timeouts = @ + 1]

\* case <-timeout
Timeout(r) ==
    /\ pc[r] = "gather"
    /\ fired(elapsed[r], deadline[r])
    /\ Metrics' = countTimeout(Metrics)
    /\ pc' = [pc EXCEPT ![r] = "gathered"]
    /\ UNCHANGED <<tick, bodies, limit, sem, metricPaths, kind, target, servers, wk, ch, cnt,
                   response, isFirstResponse, elapsed, deadline, firstAt, usableInTime, reply,
                   lastFind, seenFind>>
    /\ UNCHANGED <<got, mu, pending>>
    /\ UNCHANGED pureVars

\* Time passes.  A coordinator blocked in select takes a ready case at once:
\* time does not pass while a message is waiting or a deadline has fired.
Tick ==
    /\ \E r \in Requests : pc[r] = "gather"
    /\ \A r \in Requests : pc[r] = "gather" => Len(ch[r]) = 0 /\ elapsed[r] < deadline[r]
    /\ elapsed' = [r \in Requests |->
                     IF pc[r] = "gather" THEN elapsed[r] + tick ELSE elapsed[r]]
    /\ UNCHANGED <<tick, bodies, limit, sem, metricPaths, Metrics, pc, kind, target, servers, wk, ch,
                   cnt, response, isFirstResponse, deadline, firstAt, usableInTime, reply,
                   lastFind, seenFind>>
    /\ UNCHANGED <<got, mu, pending>>
    /\ UNCHANGED pureVars

----------------------------------------------------------------------------
(* Handlers: after multiGet returned *)

\* findHandler from `if responses == nil || len(responses) == 0` on
FindReturn(r) ==
    /\ pc[r] = "gathered"
    /\ kind[r] = "find"
    /\ IF Len(response[r]) = 0
       THEN /\ reply' = [reply EXCEPT ![r] = [code |-> 500, body |-> Nil]]
            /\ UNCHANGED <<metricPaths, Metrics, lastFind>>
       ELSE LET f == findHandlerPB(response[r])
            IN  /\ Metrics' = [Metrics EXCEPT !.FindErrors = @ + f.errs]
                /\ metricPaths' = CommitPaths(metricPaths, f.paths)
                /\ lastFind' = [p \in Paths |->
                                  IF p \in DOMAIN f.paths THEN f.paths[p] ELSE lastFind[p]]
                /\ reply' = [reply EXCEPT ![r] = [code |-> 200, body |-> f.metrics]]
    /\ pc' = [pc EXCEPT ![r] = "done"]
    /\ UNCHANGED <<tick, bodies, limit, sem, kind, target, servers, wk, ch, cnt, response,
                   isFirstResponse, elapsed, deadline, firstAt, usableInTime, seenFind>>
    /\ UNCHANGED <<got, mu, pending>>
    /\ UNCHANGED pureVars

\* renderHandler from `if responses == nil || len(responses) == 0` on
RenderReturn(r) ==
    /\ pc[r] = "gathered"
    /\ kind[r] = "render"
    /\ IF Len(response[r]) = 0
       THEN /\ reply' = [reply EXCEPT ![r] = [code |-> 500, body |-> Nil]]
            /\ Metrics' = [Metrics EXCEPT !.RenderErrors = @ + 1]
       ELSE LET h == handleRenderPB(response[r])
            IN  /\ Metrics' = [Metrics EXCEPT !.RenderErrors = @ + h.errs]
                /\ reply' = [reply EXCEPT ![r] = [code |-> h.code, body |-> h.metric]]
    /\ pc' = [pc EXCEPT ![r] = "done"]
    /\ UNCHANGED <<tick, bodies, limit, sem, metricPaths, kind, target, servers, wk, ch, cnt, response,
                   isFirstResponse, elapsed, deadline, firstAt, usableInTime, lastFind,
                   seenFind>>
    /\ UNCHANGED <<got, mu, pending>>
    /\ UNCHANGED pureVars

----------------------------------------------------------------------------

Next ==
    \/ \E r \in Requests : FindStart(r)
    \/ \E r \in Requests : RenderEmpty(r)
    \/ \E r \in Requests, tgt \in Paths : RenderStart(r, tgt)
    \/ \E r \in Requests : \E j \in DOMAIN wk[r] : ParseError(r, j)
    \/ \E r \in Requests : \E j \in DOMAIN wk[r] : Enter(r, j)
    \/ \E r \in Requests : \E j \in DOMAIN wk[r] : \E o \in HttpOutcomes :
          \E b \in BodiesFor(kind[r], wk[r][j].server) : Complete(r, j, o, b)
    \/ \E r \in Requests : Recv(r)
    \/ \E r \in Requests : Timeout(r)
    \/ Tick
    \/ \E r \in Requests : FindReturn(r)
    \/ \E r \in Requests : RenderReturn(r)

Spec == Init /\ [][Next]_vars

----------------------------------------------------------------------------
(* The handlers with multiGet taken as one step.  multiGet returns, in     *)
(* arrival order, the bodies of some of the workers it started, and has    *)
(* counted a timeout only when fewer than len(servers) workers reported.   *)

\* the lists that extend acc by bodies of workers not in `used`, in any order
RECURSIVE Arrivals(_, _, _, _)
Arrivals(k, list, used, acc) ==
    {acc} \cup
    UNION { UNION { Arrivals(k, list, used \cup {j},
                             Append(acc, serverResponse(list[j], b))) :
                    b \in BodiesFor(k, list[j]) } :
            j \in (1..Len(list)) \ used }

\* what multiGet(list, uri) may return for a request of kind k
ScatterResults(k, list) == Arrivals(k, list, {}, <<>>)

\* multiGet(servers, uri), from dispatch to return
Scatter(r, result, timedOut) ==
    /\ pc[r] = "gather"
    /\ timedOut => Len(result) < Len(servers[r])
    /\ response' = [response EXCEPT ![r] = result]
    /\ Metrics' = [Metrics EXCEPT !.Timeouts = IF timedOut THEN @ + 1 ELSE @]
    /\ pc' = [pc EXCEPT ![r] = "gathered"]
    /\ UNCHANGED <<tick, bodies, limit, sem, metricPaths, kind, target, servers, wk, ch,
                   cnt, isFirstResponse, elapsed, deadline, firstAt, usableInTime, reply,
                   lastFind, seenFind>>
    /\ UNCHANGED <<got, mu, pending>>
    /\ UNCHANGED pureVars

RouteInit == SysInit(Requests, TimeoutMs, "route", {0}) /\ PureIdle

RouteNext ==
    \/ \E r \in Requests : FindStart(r)
    \/ \E r \in Requests : RenderEmpty(r)
    \/ \E r \in Requests, tgt \in Paths : RenderStart(r, tgt)
    \/ \E r \in Requests : \E result \in ScatterResults(kind[r], servers[r]) :
          \E timedOut \in BOOLEAN : Scatter(r, result, timedOut)
    \/ \E r \in Requests : FindReturn(r)
    \/ \E r \in Requests : RenderReturn(r)

RouteSpec == RouteInit /\ [][RouteNext]_vars

----------------------------------------------------------------------------
(* The routing cache under Config.mu, the commit of a find taken one map   *)
(* entry at a time.                                                        *)

\* Config.mu.Lock() can proceed: nobody holds the lock.  A reader holds it
\* only within RenderRead.
canLock(m) == m = 0

\* a read that takes no lock
rlockAlways(m) == TRUE

\* Config.mu.RLock() can proceed: no writer holds the lock
canRLock(m) == m = 0

\* a store that keeps an entry the cache already has
storeIfAbsent(mp, k, v) == IF k \in DOMAIN mp THEN mp ELSE MapSet(mp, k, v)

\* Config.metricPaths[k] = v
storeEntry(mp, k, v) == MapSet(mp, k, v)

\* map f without key k
MapDrop(f, k) == [x \in DOMAIN f \ {k} |-> f[x]]

\* findHandler answering 500: multiGet returned nothing
FindEmpty(r) ==
    /\ Len(response[r]) = 0
    /\ FindReturn(r)

\* findHandler: findHandlerPB, then Config.mu.Lock()
FindLock(r) ==
    /\ pc[r] = "gathered"
    /\ kind[r] = "find"
    /\ Len(response[r]) # 0
    /\ canLock(mu)
    /\ LET f == findHandlerPB(response[r])
       IN  /\ Metrics' = [Metrics EXCEPT !.FindErrors = @ + f.errs]
           /\ pending' = [pending EXCEPT ![r] = f.paths]
    /\ mu' = r
    /\ pc' = [pc EXCEPT ![r] = "commit"]
    /\ UNCHANGED <<tick, bodies, limit, sem, metricPaths, kind, target, servers, wk, ch, cnt,
                   response, isFirstResponse, elapsed, deadline, firstAt, usableInTime, reply,
                   lastFind, seenFind, got>>
    /\ UNCHANGED pureVars

\* one iteration of `for k, v := range paths`, in the map's order
FindStore(r, k) ==
    /\ pc[r] = "commit"
    /\ k \in DOMAIN pending[r]
    /\ metricPaths' = storeEntry(metricPaths, k, pending[r][k])
    /\ pending' = [pending EXCEPT ![r] = MapDrop(@, k)]
    /\ UNCHANGED <<tick, bodies, limit, sem, Metrics, pc, kind, target, servers, wk, ch, cnt,
                   response, isFirstResponse, elapsed, deadline, firstAt, usableInTime, reply,
                   lastFind, seenFind, got, mu>>
    /\ UNCHANGED pureVars

\* Config.mu.Unlock() and the reply
FindUnlock(r) ==
    /\ pc[r] = "commit"
    /\ DOMAIN pending[r] = {}
    /\ mu' = 0
    /\ LET f == findHandlerPB(response[r])
       IN  /\ lastFind' = [p \in Paths |->
                             IF p \in DOMAIN f.paths THEN f.paths[p] ELSE lastFind[p]]
           /\ reply' = [reply EXCEPT ![r] = [code |-> 200, body |-> f.metrics]]
    /\ pc' = [pc EXCEPT ![r] = "done"]
    /\ UNCHANGED <<tick, bodies, limit, sem, metricPaths, Metrics, kind, target, servers, wk, ch,
                   cnt, response, isFirstResponse, elapsed, deadline, firstAt, usableInTime,
                   seenFind, got, pending>>
    /\ UNCHANGED pureVars

\* renderHandler: Config.mu.RLock(), the lookup, Config.mu.RUnlock(), dispatch
RenderRead(r, tgt) ==
    /\ canRLock(mu)
    /\ RenderStart(r, tgt)

CacheInit == SysInit(Requests, TimeoutMs, "route", {0}) /\ PureIdle

CacheNext ==
    \/ \E r \in Requests : FindStart(r)
    \/ \E r \in Requests : RenderEmpty(r)
    \/ \E r \in Requests, tgt \in Paths : RenderRead(r, tgt)
    \/ \E r \in Requests : \E result \in ScatterResults(kind[r], servers[r]) :
          \E timedOut \in BOOLEAN : Scatter(r, result, timedOut)
    \/ \E r \in Requests : FindEmpty(r)
    \/ \E r \in Requests : FindLock(r)
    \/ \E r \in Requests : \E k \in DOMAIN pending[r] : FindStore(r, k)
    \/ \E r \in Requests : FindUnlock(r)
    \/ \E r \in Requests : RenderReturn(r)

CacheSpec == CacheInit /\ [][CacheNext]_vars

TimedSpec == TimedInit /\ [][Next]_vars

\* concurrent requests under a limiter of the largest capacity
FairInit == SysInit({1, 2}, TimeoutMs, "few", {MaxLimit}) /\ PureIdle

\* The coordinators run and their timers fire: time passes while every
\* gathering coordinator waits, and a coordinator whose select has a ready
\* case takes one.  Nothing is assumed of the workers.
CoordinatorFairness ==
    /\ WF_vars(Tick)
    /\ \A r \in Requests : WF_vars(Recv(r)) /\ WF_vars(Timeout(r))

LiveSpec == FairInit /\ [][Next]_vars /\ CoordinatorFairness

\* The worker goroutines run: a worker that can take a slot of its backend
\* does, and an HTTP call that was started completes.  Nothing is assumed of
\* the coordinators.
WorkerFairness ==
    \A r \in Requests :
        /\ WF_vars(\E j \in DOMAIN wk[r] : Enter(r, j))
        /\ WF_vars(\E j \in DOMAIN wk[r] : \E o \in HttpOutcomes :
                      \E b \in BodiesFor(kind[r], wk[r][j].server) : Complete(r, j, o, b))

FairSpec == FairInit /\ [][Next]_vars /\ WorkerFairness

----------------------------------------------------------------------------
(* handleRenderPB and findHandlerPB applied to lists of shard responses *)

\* most decoded responses in a merge
MaxFetch == 3

\* the sample counts a FetchResponse may have
SampleCounts == {1, 2}

\* most matches in a glob response
MaxMatches == 2

\* all sequences over S with a length in `lens`
SeqsOf(S, lens) == UNION {[1..n -> S] : n \in lens}

\* the j-th response's sample at index i when present; absent samples carry 0
SampleOf(j, i) == 10 * j + i

\* the j-th fetch body with the given step and absent flags
FetchOf(j, step, absent) ==
    FetchBody(step,
              [i \in 1..Len(absent) |-> IF absent[i] THEN 0 ELSE SampleOf(j, i)],
              absent)

\* the fetch shapes a response may have: a step and the absent flags
FetchShapes == {10, 60} \X SeqsOf(BOOLEAN, SampleCounts)

\* lists of 2..MaxFetch decodable fetch responses
MergeInputs ==
    { [j \in 1..Len(sh) |->
          serverResponse(Backends[((j - 1) % Len(Backends)) + 1],
                         FetchOf(j, sh[j][1], sh[j][2]))] :
      sh \in SeqsOf(FetchShapes, 2..MaxFetch) }

GlobRecords == {GlobMatch("x.y", TRUE), GlobMatch("x.y", FALSE), GlobMatch("x.z", TRUE)}

GlobBodies == {BadBody} \cup {GlobBody(ms) : ms \in SeqsOf(GlobRecords, 0..MaxMatches)}

\* what multiGet(Config.Backends, uri) may return when backends answer with GlobBodies
FindInputs ==
    LET held == [b \in BackendSet |-> GlobBodies]
        RECURSIVE arr(_, _)
        arr(used, acc) ==
            {acc} \cup
            UNION { UNION { arr(used \cup {j}, Append(acc, serverResponse(Backends[j], b))) :
                            b \in held[Backends[j]] } :
                    j \in (1..Len(Backends)) \ used }
    IN  arr({}, <<>>) \ {<<>>}

PureInit ==
    /\ SysInit({}, TimeoutMs, "all", {0})
    /\ \/ mode = "merge" /\ input \in MergeInputs
       \/ mode = "find" /\ input \in FindInputs
    /\ output = NoOutput

\* handleRenderPB(w, req, format, responses)
ApplyMerge ==
    /\ mode = "merge"
    /\ ~output.done
    /\ output' = [done |-> TRUE, val |-> handleRenderPB(input)]
    /\ UNCHANGED <<mode, input>>
    /\ UNCHANGED sysVars

\* findHandlerPB(w, req, responses)
ApplyFind ==
    /\ mode = "find"
    /\ ~output.done
    /\ output' = [done |-> TRUE, val |-> findHandlerPB(input)]
    /\ UNCHANGED <<mode, input>>
    /\ UNCHANGED sysVars

PureNext == ApplyMerge \/ ApplyFind

PureSpec == PureInit /\ [][PureNext]_vars

----------------------------------------------------------------------------
(* Properties of the scatter engine and the limiter *)

\* the workers of backend b that are between Limiter.enter and Limiter.leave
InHttp(b) ==
    UNION { { <<r, j>> : j \in {k \in DOMAIN wk[r] : wk[r][k].pc = "http"
                                                    /\ wk[r][k].server = b} } :
            r \in Requests }

\* the workers of backend b that wait in Limiter.enter
Waiting(b) ==
    UNION { { <<r, j>> : j \in {k \in DOMAIN wk[r] : wk[r][k].pc = "start"
                                                    /\ wk[r][k].server = b} } :
            r \in Requests }

\* multiGet of request r has returned
Returned(r) == pc[r] = "gathered" \/ (pc[r] = "done" /\ servers[r] # <<>>)

\* C1: with the limiter enabled at capacity limit > 0, at most `limit` workers
\* are between enter and leave for any one backend, in every reachable state.
C1_LimiterBound ==
    limit > 0 => \A b \in BackendSet : Cardinality(InHttp(b)) <= limit

\* C1 witness: a backend's slots are all taken by workers of concurrent
\* requests while a further worker waits to enter.
C1_Witness ==
    /\ limit > 0
    /\ \E b \in BackendSet :
          /\ Cardinality(InHttp(b)) = limit
          /\ Waiting(b) # {}
          /\ \E x \in InHttp(b), y \in Waiting(b) : x[1] # y[1]

\* C2: multiGet returns at most |S| responses, each tagged with a backend of
\* S, and no two of them carry the same backend tag.
C2_DistinctTags ==
    \A r \in Requests : Returned(r) =>
        /\ Len(response[r]) <= Len(servers[r])
        /\ \A a \in DOMAIN response[r] : response[r][a].server \in Range(servers[r])
        /\ \A a, b \in DOMAIN response[r] :
              a # b => response[r][a].server # response[r][b].server

\* C3: until the first successful response the deadline is TimeoutMs after
\* dispatch and the gather does not outlast it; from the first successful
\* response, received at firstAt, the deadline is firstAt +
\* TimeoutMsAfterFirstSeen, whatever is received later, and the gather does not
\* outlast that.
C3_TwoPhaseDeadline ==
    \A r \in Requests : (pc[r] = "gather" \/ Returned(r)) =>
        IF isFirstResponse[r]
        THEN /\ firstAt[r] = -1
             /\ response[r] = <<>>
             /\ deadline[r] = TimeoutMs
             /\ elapsed[r] <= TimeoutMs
        ELSE /\ firstAt[r] >= 0
             /\ firstAt[r] <= TimeoutMs
             /\ response[r] # <<>>
             /\ deadline[r] = firstAt[r] + TimeoutMsAfterFirstSeen
             /\ elapsed[r] <= deadline[r]

\* C3 witness: the first successful response came some time after dispatch,
\* an absent one and nothing else followed, and the gather ended on the second
\* deadline, later than TimeoutMs after dispatch.
C3_Witness ==
    \E r \in Requests :
        /\ pc[r] = "gathered"
        /\ firstAt[r] = TimeoutMs
        /\ elapsed[r] = TimeoutMs + TimeoutMsAfterFirstSeen
        /\ Len(response[r]) = 1
        /\ Metrics.Timeouts = 1

\* C6: a find whose scatter returned responses none of which decodes is
\* answered 500, with one find error counted per body.
C6_AllUndecodableIs500 ==
    \A r \in Requests :
        (/\ pc[r] = "done"
         /\ kind[r] = "find"
         /\ Len(response[r]) > 0
         /\ \A a \in DOMAIN response[r] : UnmarshalGlob(response[r][a].response).err)
        => /\ reply[r].code = 500
           /\ Metrics.FindErrors = Len(response[r])

\* C7: a render with an empty target is answered 400 and dispatches nothing;
\* a render with a target is answered 200 with a merged response whenever a
\* worker sent a decodable body before the deadline, or the gather kept one;
\* it is answered 500 only when the gather kept no decodable body.
C7_RenderStatus ==
    \A r \in Requests : (pc[r] = "done" /\ kind[r] = "render") =>
        LET kept == \E a \in DOMAIN response[r] : Usable("render", response[r][a].response)
        IN  /\ reply[r].code \in {200, 400, 500}
            /\ (target[r] = "") = (reply[r].code = 400)
            /\ target[r] = "" => wk[r] = <<>> /\ servers[r] = <<>>
            /\ (target[r] # "" /\ (usableInTime[r] \/ kept))
                  => reply[r].code = 200 /\ reply[r].body # Nil
            /\ reply[r].code = 500 => ~kept /\ ~usableInTime[r]

\* C7 witness: a render answered 200 although one shard sent garbage.
C7_Witness ==
    \E r \in Requests :
        /\ pc[r] = "done"
        /\ kind[r] = "render"
        /\ reply[r].code = 200
        /\ Len(response[r]) = 2
        /\ Metrics.RenderErrors = 1

\* the summary of multiGet used by Scatter covers what the workers and the
\* gather loop can produce
ScatterSummarySound ==
    \A r \in Requests : Returned(r) =>
        /\ response[r] \in ScatterResults(kind[r], servers[r])
        /\ cnt[r] < Len(servers[r]) => Len(response[r]) < Len(servers[r])

----------------------------------------------------------------------------
(* Properties of the routing cache *)

\* render r has read the cache and dispatched
Dispatched(r) ==
    kind[r] = "render" /\ target[r] # "" /\ pc[r] \in {"gather", "gathered", "done"}

\* the list find r learned for path p, or <<>>
Learned(r, p) ==
    LET f == findHandlerPB(response[r])
    IN  IF p \in DOMAIN f.paths THEN f.paths[p] ELSE <<>>

\* C5: a render that read the cache after a find containing its target had
\* committed dispatches to exactly the backends recorded by the most recently
\* committed such find.
C5_RenderFollowsLatestFind ==
    \A r \in Requests : (Dispatched(r) /\ seenFind[r] # <<>>) =>
        /\ servers[r] = seenFind[r]
        /\ {wk[r][j].server : j \in DOMAIN wk[r]} = Range(seenFind[r])

\* C5 witness: two finds committed different lists for a path, one after the
\* other, and a render of that path read the cache after the second.
C5_Witness ==
    \E r, f1, f2 \in Requests :
        /\ Dispatched(r)
        /\ kind[f1] = "find" /\ pc[f1] = "done" /\ reply[f1].code = 200
        /\ kind[f2] = "find" /\ pc[f2] = "done" /\ reply[f2].code = 200
        /\ Learned(f1, target[r]) # <<>>
        /\ Learned(f2, target[r]) # <<>>
        /\ Learned(f1, target[r]) # Learned(f2, target[r])
        /\ seenFind[r] = Learned(f2, target[r])
        /\ metricPaths[target[r]] = seenFind[r]

\* C10: the list a render hands to multiGet is never empty; it is the cache
\* entry of its target when the cache holds a non-empty one and Config.Backends
\* otherwise; after a find recorded x.z -> [B], a render of x.z queries B only.
C10_ServerList ==
    /\ [](\A r \in Requests : Dispatched(r) =>
             /\ servers[r] # <<>>
             /\ DOMAIN wk[r] = DOMAIN servers[r]
             /\ \A j \in DOMAIN wk[r] : wk[r][j].server = servers[r][j]
             /\ (target[r] = "x.z" /\ seenFind[r] = <<"B">>) =>
                    \A j \in DOMAIN wk[r] : wk[r][j].server = "B")
    /\ [][\A r \in Requests :
            (pc[r] = "idle" /\ kind'[r] = "render" /\ target'[r] # "") =>
                servers'[r] =
                    IF /\ target'[r] \in DOMAIN metricPaths
                       /\ metricPaths[target'[r]] # <<>>
                    THEN metricPaths[target'[r]]
                    ELSE Backends]_vars

\* C10 witness: a find recorded x.y -> [A, B] and x.z -> [B], and a render of
\* x.z then dispatched to B alone.
C10_Witness ==
    \E r \in Requests :
        /\ Dispatched(r)
        /\ target[r] = "x.z"
        /\ seenFind[r] = <<"B">>
        /\ servers[r] = <<"B">>
        /\ "x.y" \in DOMAIN metricPaths
        /\ metricPaths["x.y"] = <<"A", "B">>

----------------------------------------------------------------------------
(* Properties of the render merger *)

Min(S) == CHOOSE x \in S : \A y \in S : x <= y

\* the decoded responses of a merge input
Decoded == [j \in DOMAIN input |-> UnmarshalFetch(input[j].response).d]

\* the working list: the base moved to the front
Working == swapBase(Decoded, highestLoop(Decoded, 1, 1))

\* a merge of at least two decoded responses has been made
Merged == mode = "merge" /\ output.done /\ Len(input) >= 2

EqualLengths == \A a, b \in DOMAIN Decoded : Len(Decoded[a].Values) = Len(Decoded[b].Values)

\* sample i of m is sample i of d
SameSample(m, d, i) == m.IsAbsent[i] = d.IsAbsent[i] /\ m.Values[i] = d.Values[i]

\* the peers of working list w that mark index i present
PresentPeers(w, i) == {q \in 2..Len(w) : ~w[q].IsAbsent[i]}

\* C4: in a merge of responses of equal length, each merged sample is the
\* base's if the base has it, else that of the first peer having it, else
\* absent; the merged step is the least step.
C4_FirstPeerFills ==
    (Merged /\ EqualLengths) =>
        LET m == output.val.metric
            w == Working
        IN  /\ m.StepTime = Min({w[j].StepTime : j \in DOMAIN w})
            /\ \A i \in DOMAIN w[1].Values :
                  IF ~w[1].IsAbsent[i] THEN SameSample(m, w[1], i)
                  ELSE IF PresentPeers(w, i) # {}
                       THEN SameSample(m, w[Min(PresentPeers(w, i))], i)
                       ELSE m.IsAbsent[i]

\* the peers of working list w whose value count differs from the base's
Mismatched(w) == {q \in 2..Len(w) : Len(w[q].Values) # Len(w[1].Values)}

\* the indices the base of working list w marks absent
AbsentIdx(w) == {i \in DOMAIN w[1].Values : w[1].IsAbsent[i]}

\* C8: when a peer of another length is reached while filling an absent base
\* index, only that index may have been filled, and only from a peer before
\* the mismatched one; every other sample is the base's; one render error is
\* counted and the base is returned with status 200.  With two responses the
\* base is returned unchanged.  When no base index is absent nothing is
\* filled and nothing is counted.
C8_MismatchAborts ==
    Merged =>
        LET w == Working
            mis == Mismatched(w)
            abs == AbsentIdx(w)
        IN  mis # {} =>
            LET m    == output.val.metric
                base == w[1]
            IN  /\ output.val.code = 200
                /\ m.StepTime = base.StepTime
                /\ DOMAIN m.Values = DOMAIN base.Values
                /\ IF abs = {}
                   THEN m = base /\ output.val.errs = 0
                   ELSE LET is     == Min(abs)
                            qs     == Min(mis)
                            before == {q \in 2..(qs - 1) : ~w[q].IsAbsent[is]}
                        IN  /\ output.val.errs = 1
                            /\ \A i \in DOMAIN base.Values :
                                  i # is => SameSample(m, base, i)
                            /\ IF before = {} THEN SameSample(m, base, is)
                               ELSE \E q \in before : SameSample(m, w[q], is)
                            /\ Len(w) = 2 => m = base

\* C8 witness: a peer filled an absent base sample, the next peer had another
\* length, and a later absent base sample was left alone.
C8_Witness ==
    /\ Merged
    /\ LET w == Working
       IN  /\ Len(w) = 3
           /\ Mismatched(w) = {3}
           /\ AbsentIdx(w) = {1, 2}
           /\ ~w[2].IsAbsent[1] /\ ~w[2].IsAbsent[2]
    /\ ~output.val.metric.IsAbsent[1]
    /\ output.val.metric.IsAbsent[2]
    /\ output.val.errs = 1

----------------------------------------------------------------------------
(* Properties of the find aggregator *)

\* the matches of the decodable responses, each with its backend, in order
RECURSIVE Occurrences(_, _)
Occurrences(responses, k) ==
    IF k > Len(responses) THEN <<>>
    ELSE LET d == UnmarshalGlob(responses[k].response)
         IN  [a \in 1..Len(d.Matches) |-> [server |-> responses[k].server, m |-> d.Matches[a]]]
             \o Occurrences(responses, k + 1)

\* findHandlerPB has been applied to a list of shard responses
Found == mode = "find" /\ output.done

\* C9: the returned list has one record per path of the decoded responses,
\* the first one met, in the order met; the routing entry of a path lists the
\* backend of each occurrence of the path, in order.
C9_FindUnion ==
    Found =>
        LET occ     == Occurrences(input, 1)
            metrics == output.val.metrics
            paths   == output.val.paths
            first(p) == Min({x \in DOMAIN occ : occ[x].m.Path = p})
        IN  /\ \A a, b \in DOMAIN metrics : a # b => metrics[a].Path # metrics[b].Path
            /\ {metrics[a].Path : a \in DOMAIN metrics} = {occ[x].m.Path : x \in DOMAIN occ}
            /\ \A a \in DOMAIN metrics : metrics[a] = occ[first(metrics[a].Path)].m
            /\ \A a, b \in DOMAIN metrics :
                  a < b => first(metrics[a].Path) < first(metrics[b].Path)
            /\ DOMAIN paths = {occ[x].m.Path : x \in DOMAIN occ}
            /\ \A p \in DOMAIN paths :
                  LET has(o) == o.m.Path = p
                      os     == SelectSeq(occ, has)
                  IN  paths[p] = [x \in DOMAIN os |-> os[x].server]

\* C9 witness: two backends report x.y with different isLeaf, one of them
\* twice, and the other also reports x.z.
C9_Witness ==
    /\ Found
    /\ Len(input) = 2
    /\ Len(output.val.metrics) = 2
    /\ output.val.metrics[1] = GlobMatch("x.y", FALSE)
    /\ output.val.paths["x.y"] = <<"B", "A", "A">>
    /\ output.val.paths["x.z"] = <<"B">>


----------------------------------------------------------------------------
(* Properties of the gather loop *)

\* a report that carries a body
Present(m) == m.response # Nil

\* C12: the gather loop is left as soon as len(servers) reports have been
\* received, absent ones included; the list multiGet holds, and returns, is
\* the present reports among those received, in the order received.
C12_GatherCount ==
    \A r \in Requests : (pc[r] = "gather" \/ Returned(r)) =>
        /\ cnt[r] = Len(got[r])
        /\ cnt[r] <= Len(servers[r])
        /\ pc[r] = "gather" => cnt[r] < Len(servers[r])
        /\ response[r] = SelectSeq(got[r], Present)

\* C12 witness: the loop was left before the deadline after an absent report
\* and then a present one, and only the present one is returned.
C12_Witness ==
    \E r \in Requests :
        /\ pc[r] = "gathered"
        /\ Len(servers[r]) = 2
        /\ cnt[r] = 2
        /\ elapsed[r] < deadline[r]
        /\ ~Present(got[r][1])
        /\ Present(got[r][2])
        /\ response[r] = <<got[r][2]>>


----------------------------------------------------------------------------
(* Properties of the workers *)

\* the workers of request r that have returned
Finished(r) == {j \in DOMAIN wk[r] : wk[r][j].pc = "done"}

\* C13: each worker that has returned has sent one message and no other has
\* sent any, so the messages sent (waiting or received) number the returned
\* workers; the channel never holds more than len(servers) messages; and the
\* send of a worker still running is never blocked, whether or not the
\* coordinator has returned.
C13_OneSendNeverBlocks ==
    \A r \in Requests :
        /\ Len(ch[r]) + cnt[r] = Cardinality(Finished(r))
        /\ Len(ch[r]) <= Len(servers[r])
        /\ Finished(r) # DOMAIN wk[r] => canSend(r)

\* C13 witness: the coordinator returned on the deadline having received
\* nothing, and both workers sent afterwards; their messages stay in the
\* channel.
C13_Witness ==
    \E r \in Requests :
        /\ pc[r] = "done"
        /\ Len(servers[r]) = 2
        /\ cnt[r] = 0
        /\ Len(ch[r]) = 2
        /\ Finished(r) = DOMAIN wk[r]


\* C14: the tokens in a backend's semaphore number the workers between enter
\* and leave for that backend (none when the limiter is off), so every worker
\* that entered leaves once, on every exit path and whether or not its
\* coordinator has returned; a worker that returns before enter (URI parse
\* error) takes no token out.
C14_TokensMatchWorkers ==
    /\ [](\A b \in BackendSet :
             sem[b] = IF limit > 0 THEN Cardinality(InHttp(b)) ELSE 0)
    /\ [][\A r \in Requests : \A j \in DOMAIN wk[r] :
            (wk[r][j].pc = "start" /\ wk'[r][j].pc = "done") => sem' = sem]_vars

\* C14 witness: under an enabled limiter both workers of a request entered,
\* got a body and left after their coordinator had returned on the deadline,
\* and every semaphore is empty again.
C14_Witness ==
    /\ limit > 0
    /\ \A b \in BackendSet : sem[b] = 0
    /\ \E r \in Requests :
          /\ pc[r] = "done"
          /\ cnt[r] = 0
          /\ Len(ch[r]) = 2
          /\ \A a \in DOMAIN ch[r] : Present(ch[r][a])
          /\ Metrics.Timeouts > 0


----------------------------------------------------------------------------
(* Order of the shard responses *)

\* the permutations of 1..n
Perms(n) == {f \in [1..n -> 1..n] : \A a, b \in 1..n : a # b => f[a] # f[b]}

\* exactly one decoded response has the smallest step
UniqueBase ==
    LET least == Min({Decoded[j].StepTime : j \in DOMAIN Decoded})
    IN  Cardinality({j \in DOMAIN Decoded : Decoded[j].StepTime = least}) = 1

\* C15: when one response has the smallest step, the responses handed to
\* handleRenderPB in any other order give the same merged values, the same
\* absent flags and the same number of render errors.
C15_OrderIndependent ==
    (Merged /\ UniqueBase) =>
        \A f \in Perms(Len(input)) :
            LET h == handleRenderPB([j \in DOMAIN input |-> input[f[j]]])
            IN  /\ h.metric.Values = output.val.metric.Values
                /\ h.metric.IsAbsent = output.val.metric.IsAbsent
                /\ h.errs = output.val.errs


----------------------------------------------------------------------------
(* Properties of the deadline exit *)

\* multiGet of request r returned before len(servers) reports were received:
\* the deadline fired
DeadlineExit(r) == Returned(r) /\ cnt[r] < Len(servers[r])

\* C16: the timeouts counter numbers the multiGet calls that returned because
\* the deadline fired, so each such call counted once and a call in which
\* every worker reported counted nothing; a call that returned on the deadline
\* returned the present reports received until then, and a handler that got
\* an empty list answered 500.
C16_TimeoutCounted ==
    /\ Metrics.Timeouts = Cardinality({r \in Requests : DeadlineExit(r)})
    /\ \A r \in Requests : DeadlineExit(r) =>
          /\ response[r] = SelectSeq(got[r], Present)
          /\ (pc[r] = "done" /\ response[r] = <<>>) => reply[r].code = 500

\* C16 witness: one request got no answer before the deadline and was
\* answered 500; another had every worker report and was answered 200; one
\* timeout was counted.
C16_Witness ==
    \E r, q \in Requests :
        /\ pc[r] = "done" /\ DeadlineExit(r)
        /\ got[r] = <<>>
        /\ reply[r].code = 500
        /\ pc[q] = "done" /\ ~DeadlineExit(q)
        /\ reply[q].code = 200
        /\ Metrics.Timeouts = 1


----------------------------------------------------------------------------
(* Termination *)

\* the workers of request r that wait in Limiter.enter for a backend whose
\* slots are all held
Blocked(r) ==
    {j \in DOMAIN wk[r] : wk[r][j].pc = "start" /\ ~canEnter(sem, limit, wk[r][j].server)}

\* C17: whatever the workers do, a multiGet call that is gathering returns.
\* A request calls multiGet once, so this is: again and again no call is in
\* its gather loop.
C17_MultiGetReturns ==
    []<>(\A r \in Requests : pc[r] = "gather" => Returned(r))

\* C17 witness: a call returned an empty list while one of its workers was
\* still blocked in Limiter.enter and the other still in its HTTP call.
C17_Witness ==
    \E r \in Requests :
        /\ Returned(r)
        /\ response[r] = <<>>
        /\ Blocked(r) # {}
        /\ \E j \in DOMAIN wk[r] : wk[r][j].pc = "http"


\* C19: under an enabled limiter, if the workers are scheduled and every HTTP
\* call that was started completes, then every worker enters, sends, leaves
\* and returns, whether or not its coordinator has returned.  The workers of
\* a run are finitely many and run once, so this is: again and again no
\* worker is running and every semaphore is empty.
C19_WorkersTerminate ==
    []<>(/\ \A r \in Requests : Finished(r) = DOMAIN wk[r]
         /\ \A b \in BackendSet : sem[b] = 0)

\* C19 witness: two requests had workers for the same backend under an
\* enabled limiter, one of the requests returned on its deadline, and now all
\* workers have returned and every semaphore is empty.
C19_Witness ==
    /\ limit > 0
    /\ \A b \in BackendSet : sem[b] = 0
    /\ \E r, q \in Requests :
          /\ r # q
          /\ DeadlineExit(r)
          /\ Range(servers[r]) \cap Range(servers[q]) # {}
          /\ Finished(r) = DOMAIN wk[r] /\ Finished(q) = DOMAIN wk[q]
          /\ \E a \in DOMAIN ch[r] : Present(ch[r][a])


----------------------------------------------------------------------------
(* Properties of the routing cache under its lock *)

\* find f has taken the write lock, or has released it again
Writing(f) == kind[f] = "find" /\ pc[f] \in {"commit", "done"} /\ reply[f].code # 500

\* C11: while no writer holds the lock the cache holds, for every path some
\* find has committed, the list of the latest committed write of that path;
\* and a render's read of a path that a find has committed returns the list
\* of the latest committed write of it, which is the whole list one find
\* learned: never an older list, never one mixed of two writes, never one of
\* a write that has not committed.
C11_CacheLinearizable ==
    /\ [](mu = 0 =>
            \A p \in Paths : lastFind[p] # <<>> =>
                p \in DOMAIN metricPaths /\ metricPaths[p] = lastFind[p])
    /\ [][\A r \in Requests :
            (/\ pc[r] = "idle"
             /\ kind'[r] = "render"
             /\ target'[r] # ""
             /\ lastFind[target'[r]] # <<>>)
            => /\ servers'[r] = lastFind[target'[r]]
               /\ \E f \in Requests :
                     Writing(f) /\ pc[f] = "done" /\ servers'[r] = Learned(f, target'[r])]_vars

\* C11 witness: a render read x.y after one find had committed [B] for it;
\* another find now holds the lock and has stored [A, B] for x.y, with x.z
\* still to store.
C11_Witness ==
    \E r, f1, f2 \in Requests :
        /\ Dispatched(r) /\ target[r] = "x.y"
        /\ Writing(f1) /\ pc[f1] = "done"
        /\ servers[r] = Learned(f1, "x.y")
        /\ pc[f2] = "commit" /\ mu = f2
        /\ DOMAIN pending[f2] = {"x.z"}
        /\ "x.y" \in DOMAIN metricPaths
        /\ metricPaths["x.y"] = Learned(f2, "x.y")
        /\ metricPaths["x.y"] # servers[r]


\* the paths map find f handed to its commit
LearnedPaths(f) == findHandlerPB(response[f]).paths

\* C18: a step changes a cache entry only as the store of a committing find
\* that has the path in its own result, and sets it to the list that find
\* learned; when the find releases the lock every path of its result holds
\* exactly that list; no step removes a key; a step of a render, and the step
\* in which a find is answered 500, leave the cache as it was.
C18_CacheFrame ==
    [][/\ DOMAIN metricPaths \subseteq DOMAIN metricPaths'
       /\ \A p \in DOMAIN metricPaths' :
             \/ p \in DOMAIN metricPaths /\ metricPaths'[p] = metricPaths[p]
             \/ \E f \in Requests :
                   /\ pc[f] = "commit"
                   /\ p \in DOMAIN LearnedPaths(f)
                   /\ metricPaths'[p] = LearnedPaths(f)[p]
                   /\ \A q \in DOMAIN metricPaths' \ {p} :
                         q \in DOMAIN metricPaths /\ metricPaths'[q] = metricPaths[q]
       /\ \A f \in Requests : (pc[f] = "commit" /\ pc'[f] = "done") =>
             \A p \in DOMAIN LearnedPaths(f) :
                 p \in DOMAIN metricPaths' /\ metricPaths'[p] = LearnedPaths(f)[p]
       /\ \A r \in Requests :
             (pc'[r] # pc[r] /\ (kind'[r] = "render" \/ reply'[r].code = 500))
                => metricPaths' = metricPaths]_vars

\* C18 witness: a find recorded x.y -> [A, B] and x.z -> [B]; a later find
\* that learned x.y -> [A] only replaced the entry of x.y and left x.z; a
\* find answered 500 changed nothing.
C18_Witness ==
    \E f1, f2, f3 \in Requests :
        /\ pc[f1] = "done" /\ pc[f2] = "done" /\ pc[f3] = "done"
        /\ kind[f3] = "find" /\ reply[f3].code = 500
        /\ Writing(f1) /\ Writing(f2)
        /\ LearnedPaths(f1) = [p \in {"x.y", "x.z"} |-> IF p = "x.y" THEN <<"A", "B">> ELSE <<"B">>]
        /\ LearnedPaths(f2) = [p \in {"x.y"} |-> <<"A">>]
        /\ metricPaths = [p \in {"x.y", "x.z"} |-> IF p = "x.y" THEN <<"A">> ELSE <<"B">>]


\* C20: every entry of the routing cache, also while a find is storing its
\* entries, is a non-empty list of backends of Config.Backends; so every
\* list handed to multiGet holds configured backends only, and every worker
\* asks the limiter for a backend it has a semaphore for.
C20_CacheEntriesValid ==
    /\ \A p \in DOMAIN metricPaths :
          metricPaths[p] # <<>> /\ Range(metricPaths[p]) \subseteq BackendSet
    /\ \A r \in Requests :
          /\ Range(servers[r]) \subseteq BackendSet
          /\ \A j \in DOMAIN wk[r] : wk[r][j].server \in DOMAIN sem

\* C20 witness: a find whose answers came from B and then A recorded
\* x.y -> [B, A], and a render of x.y dispatched workers to B and A.
C20_Witness ==
    \E r \in Requests :
        /\ Dispatched(r) /\ target[r] = "x.y"
        /\ DOMAIN metricPaths = Paths
        /\ metricPaths["x.y"] = <<"B", "A">>
        /\ metricPaths["x.z"] = <<"B">>
        /\ servers[r] = <<"B", "A">>
        /\ wk[r][1].server = "B" /\ wk[r][2].server = "A"

====
